---- MODULE Spec2Model ----
(***************************************************************************)
(* Model of the iCloud shared-album downloader (src/src/main.rs): the      *)
(* pipeline of main(), the batched resolution of fetch_download_urls(),    *)
(* process_photo_for_download(), and the bounded-concurrency scheduler of  *)
(* download_photos() / download_single_photo().                            *)
(*                                                                         *)
(* Strings are sequences of one-character strings, so that parsing,        *)
(* matching and splitting are computed character by character.             *)
(***************************************************************************)
EXTENDS Integers, Sequences, FiniteSets, TLC

\* ------------------------------------------------------------------ bounds
\* Largest album of the full-pipeline specification Spec.
MaxPhotos == 3
\* Largest concurrency limit given on the command line.
MaxConcurrent == 2
\* Largest album of the batching specification SpecBatch (two full batches and one more).
MaxBatchPhotos == 51

\* ------------------------------------------------------- program constants
\* let batch_size = 25;
batch_size == 25

\* ------------------------------------------------------------ characters
Digits == <<"0", "1", "2", "3", "4", "5", "6", "7", "8", "9">>
DigitSet == {Digits[i] : i \in 1..10}
LetterSet ==
    {"a", "b", "c", "d", "e", "f", "g", "h", "i", "j", "k", "l", "m",
     "n", "o", "p", "q", "r", "s", "t", "u", "v", "w", "x", "y", "z",
     "A", "B", "C", "D", "E", "F", "G", "H", "I", "J", "K", "L", "M",
     "N", "O", "P", "Q", "R", "S", "T", "U", "V", "W", "X", "Y", "Z"}
\* The character class [A-Za-z0-9] of the album-link pattern.
AlnumSet == LetterSet \cup DigitSet

DigitValue(c) == (CHOOSE i \in 1..10 : Digits[i] = c) - 1

\* s[from..] (1-based), the empty string when from is past the end.
Drop(s, from) == IF from > Len(s) THEN <<>> ELSE SubSeq(s, from, Len(s))

\* Whether pat occurs in s starting at position at.
MatchesAt(s, pat, at) ==
    /\ at + Len(pat) - 1 <= Len(s)
    /\ \A k \in 1..Len(pat) : s[at + k - 1] = pat[k]

\* Some(value) is <<value>>, None is <<>>.
Some(v) == <<v>>
None == <<>>
IsSome(o) == Len(o) = 1
Unwrap(o) == o[1]

\* ------------------------------------------------------------ u32 parsing
\* A u32 is held as its decimal digits without leading zeros (u32::MAX does not fit
\* the checker's integers); numbers in this form are ordered by length, then by digits.
RECURSIVE StripZeros(_)
StripZeros(s) ==
    IF Len(s) > 1 /\ Head(s) = "0" THEN StripZeros(Tail(s)) ELSE s

RECURSIVE DigitsLess(_, _)
\* Digit-wise order of two digit strings of the same length.
DigitsLess(a, b) ==
    IF a = <<>> THEN FALSE
    ELSE IF Head(a) # Head(b) THEN DigitValue(Head(a)) < DigitValue(Head(b))
    ELSE DigitsLess(Tail(a), Tail(b))

\* a < b as numbers.
NumLess(a, b) == Len(a) < Len(b) \/ (Len(a) = Len(b) /\ DigitsLess(a, b))

\* u32::MAX = 4294967295
U32Max == <<"4", "2", "9", "4", "9", "6", "7", "2", "9", "5">>
Zero == <<"0">>

\* str::parse::<u32>(): an optional leading "+", then one or more digits, within u32.
ParseU32(s) ==
    LET body == IF s # <<>> /\ Head(s) = "+" THEN Tail(s) ELSE s
    IN  IF body = <<>> \/ \E k \in 1..Len(body) : body[k] \notin DigitSet
        THEN None
        ELSE LET v == StripZeros(body)
             IN  IF NumLess(U32Max, v) THEN None ELSE Some(v)

\* A key that puts a label that does not parse above every number.
SizeKeyUnparsedOnTop(label) == LET p == ParseU32(label) IN IF IsSome(p) THEN Unwrap(p) ELSE U32Max

\* size.parse::<u32>().unwrap_or(0)
SizeKey(label) == LET p == ParseU32(label) IN IF IsSome(p) THEN Unwrap(p) ELSE Zero

\* ------------------------------------------------- extract_hash_from_url
\* The literal part of the pattern icloud\.com/sharedalbum/#
HashPrefix ==
    <<"i", "c", "l", "o", "u", "d", ".", "c", "o", "m", "/",
      "s", "h", "a", "r", "e", "d", "a", "l", "b", "u", "m", "/", "#">>

\* Positions where the whole pattern matches: the literal, then at least one [A-Za-z0-9].
HashMatches(u) ==
    {at \in 1..Len(u) :
        /\ MatchesAt(u, HashPrefix, at)
        /\ at + Len(HashPrefix) <= Len(u)
        /\ u[at + Len(HashPrefix)] \in AlnumSet}

RECURSIVE AlnumRun(_)
\* The longest prefix of s made of [A-Za-z0-9] (the greedy capture group).
AlnumRun(s) ==
    IF s = <<>> \/ Head(s) \notin AlnumSet THEN <<>>
    ELSE <<Head(s)>> \o AlnumRun(Tail(s))

\* A pattern whose group is ([A-Za-z0-9]*): the literal alone matches.
extract_hash_allowing_empty(u) ==
    LET matches == {at \in 1..Len(u) : MatchesAt(u, HashPrefix, at)}
    IN  IF matches = {} THEN None
        ELSE LET at == CHOOSE a \in matches : \A b \in matches : a <= b
             IN  Some(AlnumRun(Drop(u, at + Len(HashPrefix))))

\* Regex::captures takes the leftmost match; Some(group 1) or None (the Err case).
extract_hash_from_url(u) ==
    IF HashMatches(u) = {} THEN None
    ELSE LET at == CHOOSE a \in HashMatches(u) : \A b \in HashMatches(u) : a <= b
         IN  Some(AlnumRun(Drop(u, at + Len(HashPrefix))))

\* ------------------------------------------------------ filename derivation
RECURSIVE SplitOn(_, _)
\* s split on the character sep: a non-empty sequence of (possibly empty) pieces.
SplitOn(s, sep) ==
    IF \A k \in 1..Len(s) : s[k] # sep THEN <<s>>
    ELSE LET at == CHOOSE k \in 1..Len(s) : s[k] = sep /\ \A j \in 1..(k - 1) : s[j] # sep
         IN  <<SubSeq(s, 1, at - 1)>> \o SplitOn(Drop(s, at + 1), sep)

\* Path::components(): empty pieces (repeated or trailing separators) vanish, and so
\* does every "." except a leading one of a relative path; the root is not a name.
PathComponents(p) ==
    LET pieces == SplitOn(p, "/")
        keep(k) == /\ pieces[k] # <<>>
                   /\ (pieces[k] = <<".">> => k = 1)
        idx == {k \in 1..Len(pieces) : keep(k)}
        nth(n) == CHOOSE k \in idx : Cardinality({j \in idx : j < k}) = n - 1
    IN  [n \in 1..Cardinality(idx) |-> pieces[nth(n)]]

\* Path::file_name(): the last component when it is a normal name.
PathFileName(p) ==
    LET comps == PathComponents(p)
    IN  IF comps = <<>> THEN None
        ELSE LET last == comps[Len(comps)]
             IN  IF last = <<".", ".">> \/ last = <<".">> THEN None ELSE Some(last)

JpgSuffix == <<".", "j", "p", "g">>

\* file_name().map(|name| name.split('?').next()).unwrap_or_else(|| "{guid}.jpg")
DeriveFilename(url_path, photo_guid) ==
    LET name == PathFileName(url_path)
    IN  IF IsSome(name) THEN SplitOn(Unwrap(name), "?")[1]
        ELSE photo_guid \o JpgSuffix

\* -------------------------------------------------------------- the inputs
\* Album links given on the command line: one with a token, one whose token is empty.
UrlWithToken == <<"w", ".">> \o HashPrefix \o <<"B", "2", "T">>
UrlEmptyToken == <<"w", ".">> \o HashPrefix
Urls == {UrlWithToken, UrlEmptyToken}

\* More command-line arguments: the fragment under another host, with any character for
\* the dot, without the #, with characters after or before the token, twice, and nothing.
SharedAlbumFragment == Drop(HashPrefix, 11)
UrlOtherHost == <<"x", ".", "o", "r", "g">> \o SharedAlbumFragment \o <<"B", "2", "T">>
UrlAnyCharForDot ==
    <<"i", "c", "l", "o", "u", "d", "X", "c", "o", "m">> \o SharedAlbumFragment \o <<"B", "2", "T">>
UrlNoHash == SubSeq(HashPrefix, 1, Len(HashPrefix) - 1) \o <<"B", "2", "T">>
UrlTokenThenDash == UrlWithToken \o <<"-", "9">>
UrlDashFirst == UrlEmptyToken \o <<"-", "B">>
UrlTwoFragments == UrlWithToken \o <<" ">> \o HashPrefix \o <<"Z", "9">>
UrlEmpty == <<>>
ResolveUrls ==
    {UrlWithToken, UrlEmptyToken, UrlOtherHost, UrlAnyCharForDot, UrlNoHash,
     UrlTokenThenDash, UrlDashFirst, UrlTwoFragments, UrlEmpty}

\* Content checksums, location references, schemes and hosts of the remote service.
Checksums == {"c1", "c2"}
LocRefs == {"l1", "l2"}
Scheme == <<"h", "t", "t", "p", "s">>
Host1 == <<"h", "1">>
Host2 == <<"h", "2">>

\* Asset paths of the service, and the bodies it serves for them.
PathA == <<"/", "a", "/", "I", ".", "J", "?", "o", "=", "1">>
PathB == <<"/", "b", "/", "K", ".", "J">>
Paths == {PathA, PathB}
\* A body, and what a file holds, is a sequence of runs, `count` times the byte `byte`:
\* no run is empty and no two neighbours repeat one byte.
Run(b, n) == [byte |-> b, count |-> n]
Bytes(b, n) == IF n = 0 THEN <<>> ELSE <<Run(b, n)>>

\* The number of bytes of a body.
RECURSIVE BodyLen(_)
BodyLen(body) == IF body = <<>> THEN 0 ELSE body[1].count + BodyLen(Tail(body))

\* The first n bytes of a body (&body[..n]), and the bytes after them (&body[n..]).
RECURSIVE TakeBytes(_, _)
TakeBytes(body, n) ==
    IF n = 0 \/ body = <<>> THEN <<>>
    ELSE IF body[1].count <= n
         THEN <<body[1]>> \o TakeBytes(Tail(body), n - body[1].count)
         ELSE <<Run(body[1].byte, n)>>

RECURSIVE DropBytes(_, _)
DropBytes(body, n) ==
    IF n = 0 \/ body = <<>> THEN body
    ELSE IF body[1].count <= n
         THEN DropBytes(Tail(body), n - body[1].count)
         ELSE <<Run(body[1].byte, body[1].count - n)>> \o Tail(body)

\* The bytes of a followed by the bytes of b.
Join(a, b) ==
    IF a = <<>> THEN b
    ELSE IF b = <<>> THEN a
    ELSE IF a[Len(a)].byte = b[1].byte
         THEN SubSeq(a, 1, Len(a) - 1)
                 \o <<Run(b[1].byte, a[Len(a)].count + b[1].count)>> \o Tail(b)
         ELSE a \o b

\* The most bytes one write of a file handle takes: the buffer of tokio's File, 2 MiB.
max_buf_size == 2097152

\* The bodies served: one that fits in the buffer of the handle, and one that is a byte
\* longer than the buffer.
BodyA == Bytes("x", 2)
BodyB == Bytes("y", max_buf_size + 1)

\* The most bytes a file of the output directory may hold, if the system sets a limit:
\* no limit; none, one byte, as much as one buffer.
FileSizeLimits == {None, Some(0), Some(1), Some(max_buf_size)}

\* The service's asset store: the path under which each checksum's asset is served.
AssetStore == [c \in Checksums |-> IF c = "c1" THEN PathA ELSE PathB]

\* A second path with the file name of PathA, and a store that serves both.
PathC == <<"/", "b", "/", "I", ".", "J">>
CollidingStore == [c \in Checksums |-> IF c = "c1" THEN PathA ELSE PathC]

\* Paths whose last segment is only a query, and without any segment; the stores that
\* serve the first checksum under each path.
PathQueryOnly == <<"/", "a", "/", "?", "o", "=", "1">>
PathRoot == <<"/">>
FilenamePaths == {PathA, PathB, PathQueryOnly, PathRoot}
FilenameStores == {[c \in Checksums |-> IF c = "c1" THEN p ELSE PathB] : p \in FilenamePaths}

\* Size labels of derivatives.
Label100 == <<"1", "0", "0">>
Label2000 == <<"2", "0", "0", "0">>

RECURSIVE ToDigits(_)
\* n.to_string() for n >= 0
ToDigits(n) ==
    IF n < 10 THEN <<Digits[n + 1]>> ELSE ToDigits(n \div 10) \o <<Digits[(n % 10) + 1]>>

\* The photoGuid of the photo at manifest position i (unique per photo).
Guid(i) == <<"g">> \o ToDigits(i)

\* JSON values of the string-encoded numeric fields: a string, or null.
JsonString(chars) == [json |-> "string", chars |-> chars]
JsonNull == [json |-> "null"]
Width640 == JsonString(<<"6", "4", "0">>)
Height480 == JsonString(<<"4", "8", "0">>)
WidthMalformed == JsonString(<<"6", "4", "x">>)

\* A derivative object with checksum c and well-formed dimensions.
Variant(c) == [checksum |-> c, width |-> Width640, height |-> Height480]

\* A photo object with well-formed dimensions.
PhotoObject(guid, derivatives) ==
    [photoGuid |-> guid, derivatives |-> derivatives, width |-> Width640, height |-> Height480]

\* The derivatives objects a photo of the served album may carry: size label -> derivative.
NoDerivatives == <<>>
DerivativeShapes ==
    {NoDerivatives,
     [l \in {Label100} |-> Variant("c1")],
     [l \in {Label100, Label2000} |-> IF l = Label100 THEN Variant("c1") ELSE Variant("c2")]}

\* Size labels for the selection of a variant: one that is not a number, zero, the
\* largest u32 and the number after it.
LabelAbc == <<"a", "b", "c">>
LabelZero == <<"0">>
LabelU32Max == <<"4", "2", "9", "4", "9", "6", "7", "2", "9", "5">>
LabelPastU32 == <<"4", "2", "9", "4", "9", "6", "7", "2", "9", "6">>
SelectLabels == {LabelAbc, LabelZero, Label100, Label2000, LabelU32Max, LabelPastU32}

\* Derivatives objects of one or two of these labels, with distinct checksums.
SelectShapes ==
    {NoDerivatives}
        \cup {[l \in {a} |-> Variant("c1")] : a \in SelectLabels}
        \cup UNION {{[l \in {a, b} |-> IF l = a THEN Variant("c1") ELSE Variant("c2")] :
                        b \in SelectLabels \ {a}} : a \in SelectLabels}

\* Albums of two photos for the decoding of the metadata: the dimensions of the first
\* photo and of its derivative are well-formed, malformed or null; the second is well-formed.
FieldValues == {Width640, WidthMalformed, JsonNull}
DecodeAlbums ==
    {<<[photoGuid |-> Guid(1),
        derivatives |-> [l \in {Label100} |-> [checksum |-> "c1", width |-> dw, height |-> dh]],
        width |-> w,
        height |-> h],
       PhotoObject(Guid(2), [l \in {Label100} |-> Variant("c2")])>> :
        w \in FieldValues, h \in FieldValues, dw \in FieldValues, dh \in FieldValues}

\* Albums of two photos, each with one derivative of any checksum.
TwoPhotoAlbums ==
    {<<PhotoObject(Guid(1), [l \in {Label100} |-> Variant(a)]),
       PhotoObject(Guid(2), [l \in {Label100} |-> Variant(b)])>> :
        a \in Checksums, b \in Checksums}

\* The albums of n photos whose derivatives are drawn from shapes.
AlbumsOf(n, shapes) ==
    {[i \in 1..n |-> PhotoObject(Guid(i), sh[i])] : sh \in [1..n -> shapes]}

\* Albums of n photos for the batching specification: only the photos at the positions
\* in rich (around the first chunk boundary) carry a derivative, the others carry none.
BoundaryPositions == {1, batch_size, batch_size + 1}
BoundaryAlbum(n, rich) ==
    [i \in 1..n |->
        PhotoObject(Guid(i),
                    IF i \in rich
                    THEN [l \in {Label100} |-> Variant(IF i < batch_size THEN "c1" ELSE "c2")]
                    ELSE NoDerivatives)]
BoundaryAlbums ==
    {BoundaryAlbum(n, rich) : n \in 0..MaxBatchPhotos, rich \in SUBSET BoundaryPositions}

\* ---------------------------------------------------------------- the state
VARIABLES
    fsize_limit,          \* the file size limit of the system, if any
    url,                  \* args.url
    max_concurrent,       \* args.concurrent
    album,                \* the album the service holds (the webstream JSON)
    asset_paths,          \* the service's asset store: checksum -> url_path
    pc,                   \* where main() is
    exit,                 \* what main() returned
    hash,                 \* main: hash
    photos,               \* main: webstream_data.photos, decoded
    batch_start,          \* fetch_download_urls: offset of the current chunk
    assets_response,      \* fetch_download_urls: assets_response of this iteration
    fetch_download_infos, \* fetch_download_urls: its local download_infos
    download_infos,       \* main: download_infos, the value fetch_download_urls returned
    net,                  \* the requests issued and the pipeline responses received, in order
    permits,              \* download_photos: free permits of the semaphore
    task_pc,              \* download_photos: where each task's future is
    task_content,         \* download_single_photo: content, once read
    task_buffered,        \* download_single_photo: the bytes of content that write_all took
    task_pos,             \* download_single_photo: file, the offset its handle has reached
    last_write_err,       \* download_single_photo: whether file holds the error of its write
    results,              \* download_photos: each task's result
    files,                \* the output directory: file name -> bytes
    success_count,        \* download_photos: success_count
    failure_count,        \* download_photos: failure_count
    reported              \* whether the results line was printed

vars == <<url, max_concurrent, album, asset_paths, fsize_limit, pc, exit, hash, photos, batch_start,
          assets_response, fetch_download_infos, download_infos, net, permits, task_pc, task_content,
          task_buffered, task_pos, last_write_err, results, files, success_count, failure_count, reported>>

inputVars == <<url, max_concurrent, album, asset_paths, fsize_limit>>
resolveVars == <<hash, photos, batch_start, assets_response, fetch_download_infos,
                 download_infos>>
taskVars == <<permits, task_pc, task_content, task_buffered, task_pos, last_write_err, results,
              files>>
writeVars == <<task_buffered, task_pos, last_write_err>>
countVars == <<success_count, failure_count, reported>>

Running == [status |-> "running", error |-> "", failed |-> 0]
ExitOk == [status |-> "ok", error |-> "", failed |-> 0]
ExitErr(kind, n) == [status |-> "err", error |-> kind, failed |-> n]

Event(kind, arg) == [ev |-> kind, arg |-> arg]

\* ------------------------------------------------------ decoding the album
\* The orders in which a HashMap with the keys S may iterate: all of them.
Perms(S) ==
    {f \in [1..Cardinality(S) -> S] : \A i, j \in 1..Cardinality(S) : f[i] = f[j] => i = j}

\* deserialize_optional_u32_from_string: null is Ok(None), a string is parsed as u32 and a
\* string that does not parse is an error of the deserializer.
deserialize_optional_u32_from_string(v) ==
    IF v = JsonNull THEN [ok |-> TRUE, value |-> None]
    ELSE IF IsSome(ParseU32(v.chars)) THEN [ok |-> TRUE, value |-> ParseU32(v.chars)]
    ELSE [ok |-> FALSE, value |-> None]

\* struct Photo, decoded from one photo object: derivatives is the HashMap in the order
\* it iterates (fixed once the map is built, unspecified among the orders).
DecodePhoto(p) ==
    IF \/ ~deserialize_optional_u32_from_string(p.width).ok
       \/ ~deserialize_optional_u32_from_string(p.height).ok
       \/ \E l \in DOMAIN p.derivatives :
             \/ ~deserialize_optional_u32_from_string(p.derivatives[l].width).ok
             \/ ~deserialize_optional_u32_from_string(p.derivatives[l].height).ok
    THEN {}
    ELSE {[photo_guid |-> p.photoGuid,
           derivatives |-> [k \in 1..Len(ord) |->
               [size |-> ord[k],
                checksum |-> p.derivatives[ord[k]].checksum,
                width |-> deserialize_optional_u32_from_string(p.derivatives[ord[k]].width).value,
                height |-> deserialize_optional_u32_from_string(p.derivatives[ord[k]].height).value]],
           width |-> deserialize_optional_u32_from_string(p.width).value,
           height |-> deserialize_optional_u32_from_string(p.height).value] :
             ord \in Perms(DOMAIN p.derivatives)}

RECURSIVE DecodePhotos(_)
\* WebstreamResponse.photos: Vec<Photo>, in the order of the JSON array; no value when the
\* deserializer of a field returned an error.
DecodePhotos(ps) ==
    IF ps = <<>> THEN {<<>>}
    ELSE {<<h>> \o t : h \in DecodePhoto(Head(ps)), t \in DecodePhotos(Tail(ps))}

\* ------------------------------------------- process_photo_for_download
\* iter().max_by_key(key): the last element, in iteration order, whose key is maximal.
MaxByKey(derivatives) ==
    IF derivatives = <<>> THEN None
    ELSE LET best == {k \in 1..Len(derivatives) :
                        \A j \in 1..Len(derivatives) :
                            ~NumLess(SizeKey(derivatives[k].size), SizeKey(derivatives[j].size))}
             last == CHOOSE k \in best : \A j \in best : j <= k
         IN  Some(derivatives[last])

\* format!("{}x{}", width or "?", height or "?")
SizeInfo(derivative) ==
    (IF IsSome(derivative.width) THEN Unwrap(derivative.width) ELSE <<"?">>)
        \o <<"x">> \o
    (IF IsSome(derivative.height) THEN Unwrap(derivative.height) ELSE <<"?">>)

\* format!("{}://{}{}", scheme, host, url_path)
DownloadUrl(scheme, host, url_path) == scheme \o <<":", "/", "/">> \o host \o url_path

Skipped == [tag |-> "skip"]
Inconsistent == [tag |-> "err"]
Resolved(info) == [tag |-> "task", info |-> info]

\* A resolution that drops a photo whose location cannot be used.
process_photo_lenient(photo, response) ==
    LET best_derivative == MaxByKey(photo.derivatives)
    IN  IF ~IsSome(best_derivative) THEN Skipped
        ELSE LET derivative == Unwrap(best_derivative)
             IN  IF derivative.checksum \notin DOMAIN response.items THEN Skipped
                 ELSE LET asset_url == response.items[derivative.checksum]
                      IN  IF asset_url.url_location \notin DOMAIN response.locations
                          THEN Skipped
                          ELSE LET location == response.locations[asset_url.url_location]
                               IN  IF location.hosts = <<>> THEN Skipped
                                   ELSE Resolved(
                                       [photo_guid |-> photo.photo_guid,
                                        checksum |-> derivative.checksum,
                                        download_url |-> DownloadUrl(location.scheme,
                                                            Head(location.hosts),
                                                            asset_url.url_path),
                                        filename |-> DeriveFilename(asset_url.url_path,
                                                                    photo.photo_guid),
                                        size_info |-> SizeInfo(derivative)])

\* Ok(None), Err(..) or Ok(Some(DownloadInfo)) for one photo against one batch response.
process_photo_for_download(photo, response) ==
    LET best_derivative == MaxByKey(photo.derivatives)
    IN  IF ~IsSome(best_derivative) THEN Skipped
        ELSE LET derivative == Unwrap(best_derivative)
             IN  IF derivative.checksum \notin DOMAIN response.items THEN Skipped
                 ELSE LET asset_url == response.items[derivative.checksum]
                      IN  IF asset_url.url_location \notin DOMAIN response.locations
                          THEN Inconsistent
                          ELSE LET location == response.locations[asset_url.url_location]
                               IN  IF location.hosts = <<>> THEN Inconsistent
                                   ELSE Resolved(
                                       [photo_guid |-> photo.photo_guid,
                                        checksum |-> derivative.checksum,
                                        download_url |-> DownloadUrl(location.scheme,
                                                            Head(location.hosts),
                                                            asset_url.url_path),
                                        filename |-> DeriveFilename(asset_url.url_path,
                                                                    photo.photo_guid),
                                        size_info |-> SizeInfo(derivative)])

\* A vector that grows at its front.
PushFront(acc, info) == <<info>> \o acc

\* download_infos.push(info)
Push(acc, info) == Append(acc, info)

RECURSIVE ProcessBatch(_, _, _)
\* for photo in batch { if let Some(info) = process_photo_for_download(..)? { push } }
\* ok is FALSE when the ? returned early.
ProcessBatch(batch, response, acc) ==
    IF batch = <<>> THEN [ok |-> TRUE, infos |-> acc]
    ELSE LET r == process_photo_for_download(Head(batch), response)
         IN  IF r.tag = "err" THEN [ok |-> FALSE, infos |-> acc]
             ELSE ProcessBatch(Tail(batch), response,
                               IF r.tag = "task" THEN Push(acc, r.info) ELSE acc)

\* Chunks that run one photo into the next chunk.
ChunkOnePastEnd(ps, start) ==
    SubSeq(ps, start + 1,
           IF start + batch_size + 1 < Len(ps) THEN start + batch_size + 1 ELSE Len(ps))

\* photos.chunks(batch_size): the chunk that starts at offset start.
Chunk(ps, start) ==
    SubSeq(ps, start + 1, IF start + batch_size < Len(ps) THEN start + batch_size ELSE Len(ps))

\* ------------------------------------------------ the service's responses
\* The asset descriptor of checksum c: any location reference, the path of the store.
AssetUrlsOf(store, c) == [url_location : LocRefs, url_path : {store[c]}]
Locations == [scheme : {Scheme}, hosts : {<<>>, <<Host1, Host2>>}]
PartialMaps(K, V) == UNION {[D -> V] : D \in SUBSET K}

\* items: some of the checksums, each with a descriptor.
ItemMaps(store) ==
    UNION {{it \in [D -> UNION {AssetUrlsOf(store, c) : c \in D}] :
               \A c \in D : it[c] \in AssetUrlsOf(store, c)} : D \in SUBSET Checksums}

\* The bodies of AssetUrlsResponse that decode.
AssetUrlsResponses(store) ==
    [items : ItemMaps(store), locations : PartialMaps(LocRefs, Locations)]

\* How a request can fail: no response, a non-success status, a body that does not decode.
RequestFailures == {"transport", "status", "decode"}

\* The body the service sends for a download URL.
ServerBody(download_url) ==
    IF \E at \in 1..Len(download_url) :
          MatchesAt(download_url, PathA, at) /\ at + Len(PathA) - 1 = Len(download_url)
    THEN BodyA ELSE BodyB

\* How the metadata request can fail: no response, a non-success status, or a body (the
\* album the service holds) that does not decode.
WebstreamFailures(served) ==
    {"transport", "status"} \cup (IF DecodePhotos(served) = {} THEN {"decode"} ELSE {})

\* ------------------------------------------------------------------ main
\* main() returns: with Ok(()) or with the error of the stage that failed.
Return(e) ==
    /\ pc' = "done"
    /\ exit' = e

\* let hash = extract_hash_from_url(&args.url)?
ExtractHash ==
    /\ pc = "start"
    /\ LET h == extract_hash_from_url(url)
       IN  IF IsSome(h)
           THEN /\ hash' = Unwrap(h)
                /\ pc' = "create_dir"
                /\ exit' = exit
           ELSE /\ Return(ExitErr("InvalidInput", 0))
                /\ hash' = hash
    /\ UNCHANGED <<inputVars, photos, batch_start, assets_response, fetch_download_infos,
                   download_infos, net, taskVars, countVars>>

\* fs::create_dir_all(&args.output)?, then fetch_webstream() sends its one POST.
CreateDirAndRequestWebstream ==
    /\ pc = "create_dir"
    /\ \/ /\ pc' = "webstream"
          /\ net' = Append(net, Event("webstream_request", hash))
          /\ exit' = exit
       \/ /\ Return(ExitErr("CreateDirFailed", 0))
          /\ net' = net
    /\ UNCHANGED <<inputVars, resolveVars, taskVars, countVars>>

\* A main() that goes on to the later stages whatever the photo count.
NeverNothingToDo(ps) == FALSE

\* if photo_count == 0 { return Ok(()) }
NothingToDo(ps) == Len(ps) = 0

\* fetch_webstream() resumes: an error, or the decoded manifest; main() then returns on
\* an empty manifest and otherwise enters fetch_download_urls().
WebstreamResponse ==
    /\ pc = "webstream"
    /\ \/ \E f \in WebstreamFailures(album) :
            /\ Return(ExitErr("MetadataFetchFailed", 0))
            /\ net' = Append(net, Event("webstream_response", f))
            /\ UNCHANGED <<photos, batch_start, fetch_download_infos>>
       \/ \E decoded \in DecodePhotos(album) :
            /\ photos' = decoded
            /\ net' = Append(net, Event("webstream_response", "ok"))
            /\ IF NothingToDo(decoded)
               THEN /\ Return(ExitOk)
                    /\ UNCHANGED <<batch_start, fetch_download_infos>>
               ELSE /\ pc' = "resolve"
                    /\ exit' = exit
                    /\ batch_start' = 0
                    /\ fetch_download_infos' = <<>>
    /\ UNCHANGED <<inputVars, hash, assets_response, download_infos, taskVars, countVars>>

\* -------------------------------------------------- fetch_download_urls
\* A loop that is left as soon as one chunk has been processed.
ChunksExhaustedAfterFirst(start, ps) == start >= batch_size \/ start >= Len(ps)

\* for batch in photos.chunks(batch_size): no chunk is left at offset start.
ChunksExhausted(start, ps) == start >= Len(ps)

\* The loop takes the next chunk and POSTs its photo GUIDs.
RequestBatch ==
    /\ pc = "resolve"
    /\ ~ChunksExhausted(batch_start, photos)
    /\ LET batch == Chunk(photos, batch_start)
           photo_guids == [k \in 1..Len(batch) |-> batch[k].photo_guid]
       IN  net' = Append(net, Event("asset_urls_request", photo_guids))
    /\ pc' = "asset_urls"
    /\ UNCHANGED <<inputVars, exit, resolveVars, taskVars, countVars>>

\* A loop that logs the failed POST and goes on with the next chunk.
BatchFailedSwallowed ==
    /\ pc = "asset_urls"
    /\ \E f \in RequestFailures :
          net' = Append(net, Event("asset_urls_response", f))
    /\ pc' = "resolve"
    /\ batch_start' = batch_start + batch_size
    /\ UNCHANGED <<inputVars, exit, hash, photos, assets_response, fetch_download_infos,
                   download_infos, taskVars, countVars>>

\* The POST fails, or its body does not decode: the function returns the error and its
\* local download_infos is dropped.
BatchFailed ==
    /\ pc = "asset_urls"
    /\ \E f \in RequestFailures :
          net' = Append(net, Event("asset_urls_response", f))
    /\ Return(ExitErr("BatchFetchFailed", 0))
    /\ fetch_download_infos' = <<>>
    /\ UNCHANGED <<inputVars, hash, photos, batch_start, assets_response, download_infos,
                   taskVars, countVars>>

\* The POST succeeds and its body decodes into assets_response.
BatchDecoded ==
    /\ pc = "asset_urls"
    /\ \E r \in AssetUrlsResponses(asset_paths) : assets_response' = Some(r)
    /\ net' = Append(net, Event("asset_urls_response", "ok"))
    /\ pc' = "process"
    /\ UNCHANGED <<inputVars, exit, hash, photos, batch_start, fetch_download_infos,
                   download_infos, taskVars, countVars>>

\* The outcome of the loop over the photos of the current chunk.
ChunkOutcome ==
    ProcessBatch(Chunk(photos, batch_start), Unwrap(assets_response), fetch_download_infos)

\* Every photo of the chunk is processed against the response; the iteration ends (and
\* assets_response with it), or the ? of an inconsistent photo returns the error.
ProcessPhotos ==
    /\ pc = "process"
    /\ \/ /\ ChunkOutcome.ok
          /\ fetch_download_infos' = ChunkOutcome.infos
          /\ batch_start' = batch_start + batch_size
          /\ pc' = "resolve"
          /\ exit' = exit
       \/ /\ ~ChunkOutcome.ok
          /\ Return(ExitErr("AssetResolutionInconsistent", 0))
          /\ fetch_download_infos' = <<>>
          /\ batch_start' = batch_start
    /\ assets_response' = None
    /\ UNCHANGED <<inputVars, hash, photos, download_infos, net, taskVars, countVars>>

\* ------------------------------------------------------- download_photos
Tasks == 1..Len(download_infos)

\* The tasks whose future waits in the queue of semaphore.acquire().
Waiting(tpc) == {i \in DOMAIN tpc : tpc[i] = "acquire"}

\* The tasks that left the queue with a permit of a finished task and whose future has
\* not been polled since: acquire() has not yet returned to them.
Granted(tpc) == {i \in DOMAIN tpc : tpc[i] = "granted"}

\* The tasks that hold a permit: between the return of acquire() and the end of their
\* future.
Holding(tpc) ==
    {i \in DOMAIN tpc :
        tpc[i] \in {"send", "bytes", "create", "write", "inflight", "written", "sync"}}

\* client.get(&info.download_url)...send(): the GET of task i leaves.
GetEvent(infos, i) == Event("get", infos[i].download_url)

\* The GETs sent so far.
GetCount(log) == Cardinality({k \in 1..Len(log) : log[k].ev = "get"})

RECURSIVE GetEvents(_, _, _)
GetEvents(infos, from, to) ==
    IF from > to THEN <<>> ELSE <<GetEvent(infos, from)>> \o GetEvents(infos, from + 1, to)

Min(a, b) == IF a < b THEN a ELSE b

\* A limit that is raised to one when it is zero.
AdmittedAtLeastOne(free, n) == Min(IF free = 0 THEN 1 ELSE free, n)

\* A scheduler that starts every task at once, whatever the limit.
AdmittedAll(free, n) == n

\* The semaphore admits this many of n tasks that ask in turn while `free` permits are free.
Admitted(free, n) == Min(free, n)

\* The loop of fetch_download_urls ends and main() gets the tasks; download_photos()
\* creates Semaphore::new(max_concurrent) and join_all polls every future once, in
\* order: each acquires a permit and sends its GET while permits last, the rest queue.
StartDownloads ==
    /\ pc = "resolve"
    /\ ChunksExhausted(batch_start, photos)
    /\ download_infos' = fetch_download_infos
    /\ LET n == Len(fetch_download_infos)
           k == Admitted(max_concurrent, n)
       IN  /\ permits' = max_concurrent - k
           /\ task_pc' = [i \in 1..n |-> IF i <= k THEN "send" ELSE "acquire"]
           /\ task_content' = [i \in 1..n |-> <<>>]
           /\ task_buffered' = [i \in 1..n |-> 0]
           /\ task_pos' = [i \in 1..n |-> 0]
           /\ last_write_err' = [i \in 1..n |-> FALSE]
           /\ results' = [i \in 1..n |-> "pending"]
           /\ net' = net \o GetEvents(fetch_download_infos, 1, k)
    /\ pc' = "download"
    /\ UNCHANGED <<inputVars, exit, hash, photos, batch_start, assets_response,
                   fetch_download_infos, files, countVars>>

\* A future whose permit is forgotten instead of dropped when nobody waits for it.
FinishLeakingPermit(i, r) ==
    /\ results' = [results EXCEPT ![i] = r]
    /\ net' = net
    /\ permits' = permits
    /\ IF Waiting(task_pc) = {}
       THEN task_pc' = [task_pc EXCEPT ![i] = "done"]
       ELSE LET w == CHOOSE j \in Waiting(task_pc) : \A m \in Waiting(task_pc) : j <= m
            IN  task_pc' = [task_pc EXCEPT ![i] = "done", ![w] = "granted"]

\* A future that keeps its permit when the download failed: nothing is handed on.
FinishKeepingPermitOnError(i, r) ==
    /\ results' = [results EXCEPT ![i] = r]
    /\ net' = net
    /\ IF r = "err" \/ Waiting(task_pc) = {}
       THEN /\ permits' = IF r = "err" THEN permits ELSE permits + 1
            /\ task_pc' = [task_pc EXCEPT ![i] = "done"]
       ELSE LET w == CHOOSE j \in Waiting(task_pc) : \A m \in Waiting(task_pc) : j <= m
            IN  /\ permits' = permits
                /\ task_pc' = [task_pc EXCEPT ![i] = "done", ![w] = "granted"]

\* The future of task i ends with result r and _permit is dropped: with nobody queued the
\* permit is free again; else the semaphore gives it to the first queued task and wakes
\* it, and that task goes on when join_all polls its future.
Finish(i, r) ==
    /\ results' = [results EXCEPT ![i] = r]
    /\ net' = net
    /\ IF Waiting(task_pc) = {}
       THEN /\ permits' = permits + 1
            /\ task_pc' = [task_pc EXCEPT ![i] = "done"]
       ELSE LET w == CHOOSE j \in Waiting(task_pc) : \A m \in Waiting(task_pc) : j <= m
            IN  /\ permits' = permits
                /\ task_pc' = [task_pc EXCEPT ![i] = "done", ![w] = "granted"]

\* A step of task i that does not end its future.
Continue(i, next) ==
    /\ task_pc' = [task_pc EXCEPT ![i] = next]
    /\ UNCHANGED <<permits, results, net>>

\* semaphore.acquire().await returns to a task that was queued: join_all polls its
\* future, which finds the permit it was given, binds _permit and sends its GET.
Acquire(i) ==
    /\ pc = "download"
    /\ task_pc[i] = "granted"
    /\ task_pc' = [task_pc EXCEPT ![i] = "send"]
    /\ net' = Append(net, GetEvent(download_infos, i))
    /\ UNCHANGED <<inputVars, pc, exit, resolveVars, permits, results, task_content, writeVars,
                   files, countVars>>

\* ------------------------------------------------- download_single_photo
\* A transfer that sends its GET again when the first one failed.
GetResponseRetrying(i) ==
    /\ pc = "download"
    /\ task_pc[i] = "send"
    /\ \/ /\ GetCount(net) <= Len(download_infos)
          /\ net' = Append(net, GetEvent(download_infos, i))
          /\ UNCHANGED <<permits, task_pc, results>>
       \/ Continue(i, "bytes")
    /\ UNCHANGED <<inputVars, pc, exit, resolveVars, task_content, writeVars, files, countVars>>

\* send().await: a transport error, a non-success status, or a success status.
GetResponse(i) ==
    /\ pc = "download"
    /\ task_pc[i] = "send"
    /\ \/ \E f \in {"transport", "status"} : Finish(i, "err")
       \/ Continue(i, "bytes")
    /\ UNCHANGED <<inputVars, pc, exit, resolveVars, task_content, writeVars, files, countVars>>

\* response.bytes().await: the whole body, or an error while reading it.
ReadBody(i) ==
    /\ pc = "download"
    /\ task_pc[i] = "bytes"
    /\ \/ /\ Finish(i, "err")
          /\ task_content' = task_content
       \/ /\ Continue(i, "create")
          /\ task_content' = [task_content EXCEPT ![i] = ServerBody(download_infos[i].download_url)]
    /\ UNCHANGED <<inputVars, pc, exit, resolveVars, writeVars, files, countVars>>

\* File::create(output_dir/filename).await: the file exists and is empty, or an error
\* (always an error for an empty filename, which names the directory itself).
CreateFile(i) ==
    /\ pc = "download"
    /\ task_pc[i] = "create"
    /\ \/ /\ Finish(i, "err")
          /\ files' = files
       \/ /\ download_infos[i].filename # <<>>
          /\ Continue(i, "write")
          /\ files' = [f \in DOMAIN files \cup {download_infos[i].filename} |->
                          IF f = download_infos[i].filename THEN <<>> ELSE files[f]]
    /\ UNCHANGED <<inputVars, pc, exit, resolveVars, task_content, writeVars, countVars>>

\* The byte that fills a hole of a file.
Nul == "NUL"

\* What a file holds after `piece` is written at offset pos of it: a write past the end
\* leaves a hole of zero bytes, a write of nothing leaves the file as it is.
WriteAt(old, pos, piece) ==
    IF piece = <<>> THEN old
    ELSE LET hole == IF BodyLen(old) < pos THEN Bytes(Nul, pos - BodyLen(old)) ELSE <<>>
         IN  Join(Join(Join(TakeBytes(old, pos), hole), piece),
                  DropBytes(old, pos + BodyLen(piece)))

\* The piece of the body that the handle takes at offset pos: at most one buffer.
Piece(content, pos) == TakeBytes(DropBytes(content, pos), max_buf_size)

\* How many bytes of a piece of n bytes a write at offset pos puts into its file: all of
\* them, or as many as fit under the file size limit; with fewer than n the write ends
\* in an error.
BytesWritten(limit, pos, n) ==
    IF ~IsSome(limit) THEN n
    ELSE IF Unwrap(limit) <= pos THEN 0
    ELSE Min(n, Unwrap(limit) - pos)

\* file.write_all(&content).await, no write in flight: with bytes left, the next piece
\* is copied to the buffer of the handle and its write is handed to a blocking thread;
\* with none left (an empty body), write_all returns Ok(()) and nothing is written.
WriteFile(i) ==
    /\ pc = "download"
    /\ task_pc[i] = "write"
    /\ LET piece == Piece(task_content[i], task_buffered[i])
       IN  /\ task_buffered' = [task_buffered EXCEPT ![i] = @ + BodyLen(piece)]
           /\ Continue(i, IF piece = <<>> THEN "sync" ELSE "inflight")
    /\ UNCHANGED <<inputVars, pc, exit, resolveVars, task_content, task_pos, last_write_err,
                   files, countVars>>

\* The blocking thread runs the write in flight: the handle of task i puts the buffered
\* piece at its offset, whole or up to the file size limit, while the future of the task
\* is pending and the other futures run.
BlockingWrite(i) ==
    /\ pc = "download"
    /\ task_pc[i] = "inflight"
    /\ LET piece == Piece(task_content[i], task_pos[i])
           n == BytesWritten(fsize_limit, task_pos[i], BodyLen(piece))
       IN  /\ files' = [files EXCEPT ![download_infos[i].filename] =
                             WriteAt(@, task_pos[i], TakeBytes(piece, n))]
           /\ task_pos' = [task_pos EXCEPT ![i] = @ + n]
    /\ Continue(i, "written")
    /\ UNCHANGED <<inputVars, pc, exit, resolveVars, task_content, task_buffered,
                   last_write_err, countVars>>

\* The future of task i learns how its write in flight ended. write_all waits for the
\* write of a piece before it takes the next one and returns its error; the write of the
\* last piece is awaited by sync_all, which keeps its error in the handle, where nothing
\* reads it.
CompleteInflight(i) ==
    /\ pc = "download"
    /\ task_pc[i] = "written"
    /\ LET failed == task_pos[i] < task_buffered[i]
           last == task_buffered[i] = BodyLen(task_content[i])
       IN  IF ~failed
           THEN /\ Continue(i, IF last THEN "sync" ELSE "write")
                /\ last_write_err' = last_write_err
           ELSE IF last
           THEN /\ Continue(i, "sync")
                /\ last_write_err' = [last_write_err EXCEPT ![i] = TRUE]
           ELSE /\ Finish(i, "err")
                /\ last_write_err' = last_write_err
    /\ UNCHANGED <<inputVars, pc, exit, resolveVars, task_content, task_buffered, task_pos,
                   files, countVars>>

\* file.sync_all().await: the result of the fsync alone; then Ok(()).
SyncFile(i) ==
    /\ pc = "download"
    /\ task_pc[i] = "sync"
    /\ \/ Finish(i, "err")
       \/ Finish(i, "ok")
    /\ UNCHANGED <<inputVars, pc, exit, resolveVars, task_content, writeVars, files,
                   countVars>>

\* A counter that is set to one instead of incremented.
CountOfAsFlag(rs, r) == IF \E i \in DOMAIN rs : rs[i] = r THEN 1 ELSE 0

\* for result in results { Ok => success_count += 1, Err => failure_count += 1 }
CountOf(rs, r) == Cardinality({i \in DOMAIN rs : rs[i] = r})

\* A check that lets a single failure pass.
DownloadsResultAboveOne(failed) ==
    IF failed > 1 THEN ExitErr("PartialDownloadFailure", failed) ELSE ExitOk

\* What download_photos() returns for a failure count.
DownloadsResult(failed) ==
    IF failed > 0 THEN ExitErr("PartialDownloadFailure", failed) ELSE ExitOk

\* join_all is ready once every future has ended; the results are counted and printed,
\* and download_photos() returns, and main() with it.
JoinAll ==
    /\ pc = "download"
    /\ \A i \in Tasks : task_pc[i] = "done"
    /\ success_count' = CountOf(results, "ok")
    /\ failure_count' = CountOf(results, "err")
    /\ reported' = TRUE
    /\ Return(DownloadsResult(failure_count'))
    /\ UNCHANGED <<inputVars, resolveVars, net, taskVars>>

\* ------------------------------------------------------ specifications
InitProgram ==
    /\ fsize_limit \in FileSizeLimits
    /\ pc = "start"
    /\ exit = Running
    /\ hash = <<>>
    /\ photos = <<>>
    /\ batch_start = 0
    /\ assets_response = None
    /\ fetch_download_infos = <<>>
    /\ download_infos = <<>>
    /\ net = <<>>
    /\ permits = 0
    /\ task_pc = <<>>
    /\ task_content = <<>>
    /\ task_buffered = <<>>
    /\ task_pos = <<>>
    /\ last_write_err = <<>>
    /\ results = <<>>
    /\ files = <<>>
    /\ success_count = 0
    /\ failure_count = 0
    /\ reported = FALSE

\* The whole pipeline on every small album, link and concurrency limit.
Init ==
    /\ url \in Urls
    /\ max_concurrent \in 0..MaxConcurrent
    /\ album \in UNION {AlbumsOf(n, DerivativeShapes) : n \in 0..MaxPhotos}
    /\ asset_paths = AssetStore
    /\ InitProgram

Next ==
    \/ ExtractHash
    \/ CreateDirAndRequestWebstream
    \/ WebstreamResponse
    \/ RequestBatch
    \/ BatchFailed
    \/ BatchDecoded
    \/ ProcessPhotos
    \/ StartDownloads
    \/ \E i \in DOMAIN task_pc : Acquire(i)
    \/ \E i \in DOMAIN task_pc : GetResponse(i)
    \/ \E i \in DOMAIN task_pc : ReadBody(i)
    \/ \E i \in DOMAIN task_pc : CreateFile(i)
    \/ \E i \in DOMAIN task_pc : WriteFile(i)
    \/ \E i \in DOMAIN task_pc : BlockingWrite(i)
    \/ \E i \in DOMAIN task_pc : CompleteInflight(i)
    \/ \E i \in DOMAIN task_pc : SyncFile(i)
    \/ JoinAll

Spec == Init /\ [][Next]_vars

\* The pipeline on albums of up to three chunks, for the batching of fetch_download_urls.
InitBatch ==
    /\ url = UrlWithToken
    /\ max_concurrent = MaxConcurrent
    /\ album \in BoundaryAlbums
    /\ asset_paths = AssetStore
    /\ InitProgram

SpecBatch == InitBatch /\ [][Next]_vars

\* The pipeline on albums of at most one photo over every shape of size labels, alone
\* or followed by a photo of one variant, for the selection of the variant.
InitSelect ==
    /\ url = UrlWithToken
    /\ max_concurrent = 1
    /\ album \in AlbumsOf(0, SelectShapes) \cup AlbumsOf(1, SelectShapes)
                  \cup {a \o <<PhotoObject(Guid(2), [l \in {Label100} |-> Variant("c2")])>> :
                           a \in AlbumsOf(1, SelectShapes)}
    /\ asset_paths = AssetStore
    /\ InitProgram

SpecSelect == InitSelect /\ [][Next]_vars

\* The pipeline on the albums with well-formed, malformed and null dimensions.
InitDecode ==
    /\ url = UrlWithToken
    /\ max_concurrent \in 1..MaxConcurrent
    /\ album \in DecodeAlbums
    /\ asset_paths = AssetStore
    /\ InitProgram

SpecDecode == InitDecode /\ [][Next]_vars

\* The pipeline on two photos and every store of paths, for the derivation of filenames.
InitFilename ==
    /\ url = UrlWithToken
    /\ max_concurrent = 1
    /\ album \in TwoPhotoAlbums
    /\ asset_paths \in FilenameStores
    /\ InitProgram

SpecFilename == InitFilename /\ [][Next]_vars

\* The pipeline on every command-line argument, for the resolution of the album token.
InitResolve ==
    /\ url \in ResolveUrls
    /\ max_concurrent = 1
    /\ album \in AlbumsOf(0, DerivativeShapes) \cup AlbumsOf(1, DerivativeShapes)
                  \cup AlbumsOf(2, DerivativeShapes)
    /\ asset_paths = AssetStore
    /\ InitProgram

SpecResolve == InitResolve /\ [][Next]_vars

\* The pipeline on two photos whose assets are served under paths with one file name.
InitCollide ==
    /\ url = UrlWithToken
    /\ max_concurrent \in 1..MaxConcurrent
    /\ album \in TwoPhotoAlbums
    /\ asset_paths = CollidingStore
    /\ InitProgram

SpecCollide == InitCollide /\ [][Next]_vars

\* A step of the download stage: an await of some transfer returns, or join_all does.
DownloadStep ==
    \/ \E i \in DOMAIN task_pc : Acquire(i)
    \/ \E i \in DOMAIN task_pc : GetResponse(i)
    \/ \E i \in DOMAIN task_pc : ReadBody(i)
    \/ \E i \in DOMAIN task_pc : CreateFile(i)
    \/ \E i \in DOMAIN task_pc : WriteFile(i)
    \/ \E i \in DOMAIN task_pc : BlockingWrite(i)
    \/ \E i \in DOMAIN task_pc : CompleteInflight(i)
    \/ \E i \in DOMAIN task_pc : SyncFile(i)
    \/ JoinAll

\* Every started transfer eventually returns and the runtime keeps polling the futures:
\* while a step of the download stage can be taken, one eventually is.
SpecFair == Init /\ [][Next]_vars /\ WF_vars(DownloadStep)

\* ---------------------------------------------------------------- claims
\* The number of GETs sent so far.

\* The tasks to whose future semaphore.acquire() has returned.
Started(tpc) == {i \in DOMAIN tpc : tpc[i] \notin {"acquire", "granted"}}

\* At most C permits are out, held by a running transfer or given to a queued task that
\* has not resumed; as many GETs were sent as tasks got past acquire(); no task is queued
\* while a permit is free.
C1_WithinLimit ==
    max_concurrent >= 1 =>
        /\ Cardinality(Holding(task_pc)) + Cardinality(Granted(task_pc)) <= max_concurrent
        /\ GetCount(net) = Cardinality(Started(task_pc))
        /\ (Waiting(task_pc) # {} => permits = 0)

\* A queued task leaves the queue only in a step in which another task's future ends, and
\* a GET is sent in a step of download_photos only by a task that was given a permit.
C1_AdmissionStep ==
    /\ \A j \in DOMAIN task_pc :
          (task_pc[j] = "acquire" /\ task_pc'[j] # "acquire") =>
              /\ task_pc'[j] = "granted"
              /\ \E i \in DOMAIN task_pc \ {j} : task_pc[i] # "done" /\ task_pc'[i] = "done"
    /\ (pc = "download" /\ GetCount(net') # GetCount(net)) =>
          \E j \in DOMAIN task_pc :
             /\ task_pc[j] = "granted" /\ task_pc'[j] = "send"
             /\ GetCount(net') = GetCount(net) + 1

\* C1: for every concurrency limit C >= 1, at most C tasks hold a permit at any time, and
\* a task beyond the limit sends its GET only after a finished task freed a permit for it.
C1_InFlightWithinLimit ==
    /\ []C1_WithinLimit
    /\ [][C1_AdmissionStep]_vars

\* Two transfers are in flight under the limit 2 while a third task waits for a permit.
C1_Witness ==
    /\ max_concurrent = 2
    /\ Cardinality(Holding(task_pc)) = 2
    /\ Waiting(task_pc) # {}
    /\ GetCount(net) = 2

\* The photos of the album that carry at least one derivative.
WithDerivatives == {i \in 1..Len(album) : DOMAIN album[i].derivatives # {}}

\* The manifest position of the photo a task was built from.
PositionOf(info) == CHOOSE i \in 1..Len(album) : album[i].photoGuid = info.photo_guid

\* An album of three photos: none without derivatives, then two with.
C2_Album ==
    <<PhotoObject(Guid(1), NoDerivatives),
      PhotoObject(Guid(2), [l \in {Label100} |-> Variant("c1")]),
      PhotoObject(Guid(3), [l \in {Label100, Label2000} |->
                                IF l = Label100 THEN Variant("c1") ELSE Variant("c2")])>>

\* C2: when download_photos has finished, every task has a result and is counted exactly
\* once, as a success or as a failure; photos skipped during resolution are not counted.
\* For the album of one photo without derivatives, one whose checksum was not resolved
\* and one resolved photo whose transfer succeeded, the counts are 1 and 0.
C2_EveryTaskCountedOnce ==
    reported =>
        /\ \A i \in Tasks : results[i] \in {"ok", "err"}
        /\ success_count + failure_count = Len(download_infos)
        /\ success_count = Cardinality({i \in Tasks : results[i] = "ok"})
        /\ failure_count = Cardinality({i \in Tasks : results[i] = "err"})
        /\ \A i \in Tasks : PositionOf(download_infos[i]) \in WithDerivatives
        /\ success_count + failure_count <= Cardinality(WithDerivatives)
        /\ (/\ album = C2_Album
            /\ Len(download_infos) = 1
            /\ download_infos[1].photo_guid = Guid(3)
            /\ results[1] = "ok") => (success_count = 1 /\ failure_count = 0)

\* The three-photo run: only the third photo became a task, and its transfer succeeded.
C2_Witness ==
    /\ reported
    /\ album = C2_Album
    /\ Len(download_infos) = 1
    /\ download_infos[1].photo_guid = Guid(3)
    /\ success_count = 1
    /\ failure_count = 0

\* Every task was admitted, sent its GET and ended, and download_photos has returned.
AllTasksCompleted ==
    /\ pc = "done"
    /\ reported
    /\ GetCount(net) = Len(download_infos)
    /\ \A i \in Tasks : task_pc[i] = "done" /\ results[i] \in {"ok", "err"}

\* A step in which task i fails leaves every other task's result alone, and moves no
\* other task except the queued one that is given the permit.
FailureIsIsolated ==
    \A i \in DOMAIN results :
        (results[i] = "pending" /\ results'[i] = "err") =>
            \A j \in DOMAIN results \ {i} :
                /\ results'[j] = results[j]
                /\ \/ task_pc'[j] = task_pc[j]
                   \/ task_pc[j] = "acquire" /\ task_pc'[j] = "granted"

\* C3: for C >= 1, once download_photos runs and every started transfer eventually
\* returns, every task is eventually admitted, attempted and completed and
\* download_photos returns, whichever tasks fail and also when C exceeds the number of
\* tasks; a failing task changes no other task's result.
C3_FailuresBlockNothing ==
    /\ (pc = "download" /\ max_concurrent >= 1) ~> AllTasksCompleted
    /\ [][FailureIsIsolated]_vars

\* Under the limit 1 the first task failed and the task queued behind it succeeded.
C3_Witness ==
    /\ AllTasksCompleted
    /\ max_concurrent = 1
    /\ Len(download_infos) = 2
    /\ results = <<"err", "ok">>

\* The tasks that failed.
Failed == {i \in Tasks : results[i] = "err"}

\* What holds once download_photos has returned.
C4_AfterDownloads ==
    /\ \A i \in Tasks : task_pc[i] = "done"
    /\ exit.status = "err" <=> Failed # {}
    /\ exit.status = "err" =>
          exit = ExitErr("PartialDownloadFailure", Cardinality(Failed))
    /\ exit.status # "err" => exit = ExitOk
    /\ \A i \in Tasks : results[i] = "ok" => download_infos[i].filename \in DOMAIN files
    /\ (Len(download_infos) = 1 /\ results[1] = "err") =>
          /\ success_count = 0
          /\ failure_count = 1
          /\ exit = ExitErr("PartialDownloadFailure", 1)

\* C4: download_photos returns the error PartialDownloadFailure exactly when at least one
\* task failed, with exactly the number of failed tasks; the error exists only once every
\* task has completed, and returning it leaves every written file as it is. One task whose
\* transfer fails gives 0 successes, 1 failure and the error with count 1.
C4_PartialFailureReported ==
    /\ [](exit.error = "PartialDownloadFailure" => reported)
    /\ [](reported => C4_AfterDownloads)
    /\ [][(pc = "download" /\ pc' = "done") => files' = files]_vars

\* One task succeeded and kept its file, the other failed, and the error carries count 1.
C4_Witness ==
    /\ reported
    /\ Len(download_infos) = 2
    /\ results = <<"ok", "err">>
    /\ exit = ExitErr("PartialDownloadFailure", 1)
    /\ download_infos[1].filename \in DOMAIN files
    /\ files[download_infos[1].filename] = ServerBody(download_infos[1].download_url)

\* The events of one kind in the log.
EventsOf(log, kind) == {k \in 1..Len(log) : log[k].ev = kind}

\* The manifest was fetched and decoded.
ManifestFetched == \E k \in 1..Len(net) : net[k] = Event("webstream_response", "ok")

\* C5: when the fetched manifest has no photos, main() has returned Ok without any
\* asset-location request, without the download scheduler having started (no task, no GET,
\* no file), and with zero successes and zero failures counted.
C5_EmptyManifestEndsEarly ==
    (ManifestFetched /\ Len(album) = 0) =>
        /\ pc = "done"
        /\ exit = ExitOk
        /\ photos = <<>>
        /\ EventsOf(net, "asset_urls_request") = {}
        /\ EventsOf(net, "get") = {}
        /\ task_pc = <<>>
        /\ permits = 0
        /\ files = <<>>
        /\ success_count = 0
        /\ failure_count = 0

\* The run on an empty album: the only traffic was the metadata request and its answer.
C5_Witness ==
    /\ Len(album) = 0
    /\ pc = "done"
    /\ exit = ExitOk
    /\ net = <<Event("webstream_request", hash), Event("webstream_response", "ok")>>

\* The photo GUID lists of the asset-location requests sent so far, in order.
IsAssetRequest(e) == e.ev = "asset_urls_request"
AssetRequests ==
    LET reqs == SelectSeq(net, IsAssetRequest) IN [k \in 1..Len(reqs) |-> reqs[k].arg]

\* ceil(n / d)
CeilDiv(n, d) == (n + d - 1) \div d

\* The identifiers at manifest positions 25*i up to min(N, 25*i + 25) exclusive, from 0.
ExpectedRequest(ps, i) ==
    [k \in 1..(Min(Len(ps), batch_size * i + batch_size) - batch_size * i) |->
        ps[batch_size * i + k].photo_guid]

\* Exactly ceil(N/25) requests were sent, the i-th with the photos of the i-th group.
AllBatchesRequested ==
    /\ Len(AssetRequests) = CeilDiv(Len(photos), batch_size)
    /\ \A i \in 0..(Len(AssetRequests) - 1) : AssetRequests[i + 1] = ExpectedRequest(photos, i)

\* Every asset-location request sent so far was answered with a body that decoded.
EveryBatchRequestSucceeded ==
    /\ Cardinality(EventsOf(net, "asset_urls_response")) = Len(AssetRequests)
    /\ \A k \in EventsOf(net, "asset_urls_response") : net[k].arg = "ok"

RECURSIVE Flatten(_)
\* The lists of a sequence of lists, one after the other.
Flatten(ss) == IF ss = <<>> THEN <<>> ELSE Head(ss) \o Flatten(Tail(ss))

\* fetch_download_urls has returned, with a value or an error.
ResolutionEnded == Len(photos) >= 1 /\ pc \in {"download", "done"}

\* C6 as stated: for N >= 1 photos, when every batch request succeeds, fetch_download_urls
\* has sent exactly ceil(N/25) requests once it returns.
C6_AsStated ==
    (ResolutionEnded /\ EveryBatchRequestSucceeded) => AllBatchesRequested

\* C6, amended: the requests sent are always the first of the ceil(N/25) groups, in
\* manifest order and without gaps; when fetch_download_urls returns Ok (every batch
\* request succeeded and no photo was resolution-inconsistent) all ceil(N/25) were sent,
\* and together they list every photo identifier exactly once, in manifest order.
C6_BatchesCoverManifest ==
    /\ Len(AssetRequests) <= CeilDiv(Len(photos), batch_size)
    /\ \A i \in 0..(Len(AssetRequests) - 1) : AssetRequests[i + 1] = ExpectedRequest(photos, i)
    /\ (ResolutionEnded /\ exit.error \notin {"BatchFetchFailed", "AssetResolutionInconsistent"}) =>
          /\ AllBatchesRequested
          /\ Flatten(AssetRequests) = [p \in 1..Len(photos) |-> photos[p].photo_guid]
          /\ \A p, q \in 1..Len(photos) :
                photos[p].photo_guid = photos[q].photo_guid => p = q

\* Resolution of a 51-photo album returned Ok after three requests.
C6_Witness ==
    /\ Len(photos) = 2 * batch_size + 1
    /\ pc = "download"
    /\ Len(AssetRequests) = 3
    /\ Len(AssetRequests[3]) = 1

\* The stage an event of the log belongs to, and the stage main() is in.
EventStage(e) ==
    IF e.ev \in {"webstream_request", "webstream_response"} THEN 2
    ELSE IF e.ev \in {"asset_urls_request", "asset_urls_response"} THEN 3
    ELSE 4
StageOf(p) ==
    IF p \in {"start", "create_dir"} THEN 1
    ELSE IF p = "webstream" THEN 2
    ELSE IF p \in {"resolve", "asset_urls", "process"} THEN 3
    ELSE IF p = "download" THEN 4
    ELSE 5

\* The traffic so far is one metadata exchange, then asset-location exchanges one at a
\* time, then GETs; a GET is there only after the last chunk was processed.
C7_TrafficInOrder ==
    /\ \A k \in 1..(Len(net) - 1) : EventStage(net[k]) <= EventStage(net[k + 1])
    /\ Cardinality(EventsOf(net, "webstream_request")) <= 1
    /\ Len(net) >= 1 => net[1].ev = "webstream_request"
    /\ Len(net) >= 2 => net[2].ev = "webstream_response"
    /\ \A k \in EventsOf(net, "asset_urls_request") :
          /\ net[k - 1] \in {Event("webstream_response", "ok"), Event("asset_urls_response", "ok")}
          /\ k < Len(net) => net[k + 1].ev = "asset_urls_response"
    /\ \A i \in 0..(Len(AssetRequests) - 1) : AssetRequests[i + 1] = ExpectedRequest(photos, i)
    /\ pc = "webstream" <=> (Len(net) = 1)
    /\ pc = "asset_urls" <=> (Len(net) >= 1 /\ net[Len(net)].ev = "asset_urls_request")
    /\ EventsOf(net, "get") # {} =>
          /\ ChunksExhausted(batch_start, photos)
          /\ batch_start = batch_size * Len(AssetRequests)
          /\ AllBatchesRequested
          /\ EveryBatchRequestSucceeded

\* A request for the next chunk leaves only when the one before was answered and all its
\* photos were processed; main() never moves back to an earlier stage.
C7_StepsForward ==
    /\ Len(net') > Len(net) /\ net'[Len(net')].ev = "asset_urls_request" =>
          /\ pc = "resolve"
          /\ assets_response = None
          /\ batch_start = batch_size * Len(AssetRequests)
          /\ EveryBatchRequestSucceeded
    /\ StageOf(pc') >= StageOf(pc)

\* C7: exactly one metadata request is sent and answered before any asset-location
\* request; the batches are requested one at a time in manifest order, each only after
\* the one before was answered and processed; no GET leaves before the last batch was
\* processed; no earlier stage is entered again.
C7_ForwardAndSequential ==
    /\ []C7_TrafficInOrder
    /\ [][C7_StepsForward]_vars

\* A 51-photo run that reached the downloads: three exchanges, then a GET.
C7_Witness ==
    /\ Len(photos) = 2 * batch_size + 1
    /\ Len(AssetRequests) = 3
    /\ EventsOf(net, "get") # {}
    /\ net[Len(net)].ev = "get"
    /\ pc = "download"

\* The asset-location responses in the log that are failures.
FailedBatchResponses ==
    {k \in EventsOf(net, "asset_urls_response") : net[k].arg # "ok"}

\* Once a batch request failed, its failure is the last traffic of the run, the run has
\* ended with BatchFetchFailed, and no task, download or file exists.
C8_NothingAfterFailure ==
    FailedBatchResponses # {} =>
        /\ FailedBatchResponses = {Len(net)}
        /\ pc = "done"
        /\ exit = ExitErr("BatchFetchFailed", 0)
        /\ fetch_download_infos = <<>>
        /\ download_infos = <<>>
        /\ task_pc = <<>>
        /\ EventsOf(net, "get") = {}
        /\ files = <<>>

\* The step on which a batch request fails drops the tasks built so far.
C8_FailureStep ==
    (pc = "asset_urls" /\ net'[Len(net')].arg \in RequestFailures) =>
        /\ pc' = "done"
        /\ exit' = ExitErr("BatchFetchFailed", 0)
        /\ fetch_download_infos' = <<>>
        /\ UNCHANGED <<download_infos, taskVars, countVars>>

\* C8: when the asset-location request of a batch fails (status, transport or body), no
\* request follows it, the tasks built from the batches before it are discarded, no
\* download is started and no file is written.
C8_BatchFailureAbortsRun ==
    /\ []C8_NothingAfterFailure
    /\ [][C8_FailureStep]_vars

\* The second batch of an album failed, after a first batch with a photo to resolve.
C8_Witness ==
    /\ FailedBatchResponses # {}
    /\ Len(AssetRequests) = 2
    /\ batch_start = batch_size
    /\ photos[1].derivatives # <<>>
    /\ exit = ExitErr("BatchFetchFailed", 0)

\* The variant process_photo_for_download selects, and the cases the outcome depends on.
SelectedVariant(photo) == MaxByKey(photo.derivatives)
SkipCase(photo, response) ==
    \/ ~IsSome(SelectedVariant(photo))
    \/ Unwrap(SelectedVariant(photo)).checksum \notin DOMAIN response.items
FatalCase(photo, response) ==
    /\ IsSome(SelectedVariant(photo))
    /\ Unwrap(SelectedVariant(photo)).checksum \in DOMAIN response.items
    /\ LET ref == response.items[Unwrap(SelectedVariant(photo)).checksum].url_location
       IN  \/ ref \notin DOMAIN response.locations
           \/ response.locations[ref].hosts = <<>>

\* The outcome for each photo of the chunk being processed.
C9_PerPhoto ==
    pc = "process" =>
        \A k \in 1..Len(Chunk(photos, batch_start)) :
            LET photo == Chunk(photos, batch_start)[k]
                outcome == process_photo_for_download(photo, Unwrap(assets_response))
            IN  /\ SkipCase(photo, Unwrap(assets_response)) => outcome = Skipped
                /\ FatalCase(photo, Unwrap(assets_response)) => outcome = Inconsistent
                /\ outcome.tag = "task" <=>
                      /\ ~SkipCase(photo, Unwrap(assets_response))
                      /\ ~FatalCase(photo, Unwrap(assets_response))

\* The step that processes a chunk: fatal when a photo of it is, else on to the next
\* chunk with no task for a skipped photo.
C9_ChunkStep ==
    (pc = "process" /\ pc' # "process") =>
        LET chunk == Chunk(photos, batch_start)
            response == Unwrap(assets_response)
        IN  IF \E k \in 1..Len(chunk) : FatalCase(chunk[k], response)
            THEN /\ pc' = "done"
                 /\ exit' = ExitErr("AssetResolutionInconsistent", 0)
                 /\ net' = net
                 /\ fetch_download_infos' = <<>>
                 /\ download_infos' = <<>>
            ELSE /\ pc' = "resolve"
                 /\ exit' = Running
                 /\ batch_start' = batch_start + batch_size
                 /\ Len(fetch_download_infos') >= Len(fetch_download_infos)
                 /\ \A k \in 1..Len(chunk) :
                       SkipCase(chunk[k], response) =>
                           \A t \in 1..Len(fetch_download_infos') :
                               fetch_download_infos'[t].photo_guid # chunk[k].photo_guid

\* A run that ended on an inconsistent photo sent nothing after that batch's response.
C9_AbortedRun ==
    exit.error = "AssetResolutionInconsistent" =>
        /\ pc = "done"
        /\ net[Len(net)] = Event("asset_urls_response", "ok")
        /\ EventsOf(net, "get") = {}
        /\ download_infos = <<>>
        /\ task_pc = <<>>
        /\ files = <<>>

\* C9: a photo with no variant, or whose selected checksum is not in items, is skipped
\* without error; a photo whose checksum is in items but whose location reference is
\* missing, or has no host, ends the run with AssetResolutionInconsistent: no further
\* batch request, no download, never a skip.
C9_ResolutionOutcomes ==
    /\ []C9_PerPhoto
    /\ [][C9_ChunkStep]_vars
    /\ []C9_AbortedRun

\* The second of three batches held an inconsistent photo; the third was never asked for.
C9_Witness ==
    /\ exit = ExitErr("AssetResolutionInconsistent", 0)
    /\ Len(photos) = 2 * batch_size + 1
    /\ Len(AssetRequests) = 2

RECURSIVE ResolvedPhotos(_, _)
\* The photos of a chunk, in order, whose selected variant's checksum is in items.
ResolvedPhotos(chunk, response) ==
    IF chunk = <<>> THEN <<>>
    ELSE (IF SkipCase(Head(chunk), response) THEN <<>> ELSE <<Head(chunk)>>)
            \o ResolvedPhotos(Tail(chunk), response)

\* A chunk processed without error appends one task per resolved photo, in chunk order.
C10_ChunkStep ==
    (pc = "process" /\ pc' = "resolve") =>
        LET expected == ResolvedPhotos(Chunk(photos, batch_start), Unwrap(assets_response))
            before == Len(fetch_download_infos)
        IN  /\ Len(fetch_download_infos') = before + Len(expected)
            /\ SubSeq(fetch_download_infos', 1, before) = fetch_download_infos
            /\ \A k \in 1..Len(expected) :
                  /\ fetch_download_infos'[before + k].photo_guid = expected[k].photo_guid
                  /\ fetch_download_infos'[before + k].checksum =
                        Unwrap(SelectedVariant(expected[k])).checksum

\* What fetch_download_urls returns is what the loop built.
C10_ReturnStep ==
    (pc = "resolve" /\ pc' = "download") => download_infos' = fetch_download_infos

\* The tasks, while they are built and once returned, follow the manifest, one per photo.
C10_ManifestOrder ==
    /\ \A i, j \in 1..Len(fetch_download_infos) :
          i < j => PositionOf(fetch_download_infos[i]) < PositionOf(fetch_download_infos[j])
    /\ \A i, j \in Tasks :
          i < j => PositionOf(download_infos[i]) < PositionOf(download_infos[j])
    /\ \A i \in Tasks : photos[PositionOf(download_infos[i])].derivatives # <<>>

\* C10: when resolution succeeds, the tasks returned are exactly one per photo whose
\* selected variant's checksum is resolved in its batch, none for any other photo, in
\* manifest order within a batch and across batches.
C10_OneTaskPerResolvedPhoto ==
    /\ [][C10_ChunkStep /\ C10_ReturnStep]_vars
    /\ []C10_ManifestOrder

\* Tasks of two batches were returned, and a photo with a variant got none.
C10_Witness ==
    /\ pc = "download"
    /\ \E i, j \in Tasks :
          /\ i < j
          /\ PositionOf(download_infos[i]) <= batch_size
          /\ PositionOf(download_infos[j]) > batch_size
    /\ Len(download_infos) < Cardinality({p \in 1..Len(photos) : photos[p].derivatives # <<>>})

\* The numeric order of the size labels, as ranks: a label that is no unsigned integer
\* counts as 0.
RankOfInteger(label) ==
    IF label = Label100 THEN 1
    ELSE IF label = Label2000 THEN 2
    ELSE IF label = LabelU32Max THEN 3
    ELSE IF label = LabelPastU32 THEN 4
    ELSE 0

\* The same order when a label above 4294967295 is no valid number either.
RankOfU32(label) == IF label = LabelPastU32 THEN 0 ELSE RankOfInteger(label)

\* The photo of the manifest a task was built from.
PhotoOf(info) == photos[CHOOSE i \in 1..Len(photos) : photos[i].photo_guid = info.photo_guid]

\* The selector returns nothing for no variant, else a variant of largest rank; a task
\* carries the checksum of a variant of largest rank.
SelectsLargest(Rank(_)) ==
    /\ \A i \in 1..Len(photos) :
          LET derivatives == photos[i].derivatives
              selected == MaxByKey(derivatives)
          IN  IF derivatives = <<>> THEN selected = None
              ELSE /\ IsSome(selected)
                   /\ \E k \in 1..Len(derivatives) : derivatives[k] = Unwrap(selected)
                   /\ \A k \in 1..Len(derivatives) :
                         Rank(derivatives[k].size) <= Rank(Unwrap(selected).size)
    /\ \A t \in 1..Len(fetch_download_infos) :
          LET derivatives == PhotoOf(fetch_download_infos[t]).derivatives
          IN  \E k \in 1..Len(derivatives) :
                 /\ derivatives[k].checksum = fetch_download_infos[t].checksum
                 /\ \A j \in 1..Len(derivatives) :
                       Rank(derivatives[j].size) <= Rank(derivatives[k].size)

\* The claim as stated: every label that is an unsigned integer counts with its value.
C11_AsStated == SelectsLargest(RankOfInteger)

\* C11: for a non-empty variant mapping the selector returns a variant whose size label
\* is numerically largest, a label that does not parse as an unsigned 32-bit integer
\* counting as 0 (it is still selected when alone, without error); for an empty mapping
\* it returns no variant.
C11_LargestU32LabelSelected == SelectsLargest(RankOfU32)

\* A photo with the labels 4294967296 and 100 got a task for the variant labelled 100.
C11_Witness ==
    /\ pc = "download"
    /\ Len(download_infos) = 1
    /\ LET derivatives == PhotoOf(download_infos[1]).derivatives
       IN  /\ {derivatives[k].size : k \in 1..Len(derivatives)} = {LabelPastU32, Label100}
           /\ \E k \in 1..Len(derivatives) :
                 /\ derivatives[k].size = Label100
                 /\ derivatives[k].checksum = download_infos[1].checksum

\* The derivatives of a photo as another iteration order of the same map yields them.
Reordered(derivatives, ord) == [k \in 1..Len(derivatives) |-> derivatives[ord[k]]]

\* C12: the variant selected for a photo is the same under every iteration order of the
\* container that holds its variant mapping, ties of the largest value included.
C12_SelectionIndependentOfOrder ==
    \A i \in 1..Len(photos) :
        \A ord \in Perms(1..Len(photos[i].derivatives)) :
            MaxByKey(Reordered(photos[i].derivatives, ord)) = MaxByKey(photos[i].derivatives)

\* C13: a width or height that does not parse as an unsigned integer does not make the
\* decode of the response that holds it fail: once the metadata response has arrived
\* with a success status, every photo of the album is decoded and the run goes on.
C13_MalformedFieldIsolated ==
    (Len(net) >= 2 /\ net[2].arg \notin {"transport", "status"}) =>
        /\ net[2].arg = "ok"
        /\ Len(photos) = Len(album)
        /\ exit.error # "MetadataFetchFailed"

\* The tasks that start on a step: acquire() returns to them, when the futures are first
\* polled or later.
StartingTasks ==
    {i \in DOMAIN task_pc' :
        /\ i \notin DOMAIN task_pc \/ task_pc[i] \in {"acquire", "granted"}
        /\ task_pc'[i] \notin {"acquire", "granted"}}

\* For every URL, as many GETs were sent as tasks of that URL have started; a finished run
\* has sent one GET per task.
C14_OneGetPerStartedTask ==
    /\ \A i \in Tasks :
          Cardinality({k \in 1..Len(net) : /\ net[k].ev = "get"
                                            /\ net[k].arg = download_infos[i].download_url})
              = Cardinality({j \in Started(task_pc) :
                                download_infos[j].download_url = download_infos[i].download_url})
    /\ \A i \in DOMAIN task_pc : results[i] # "pending" <=> task_pc[i] = "done"
    /\ reported => GetCount(net) = Len(download_infos)

\* A step sends a GET only for a task that starts; a started task never returns to the
\* queue, a finished one keeps its result, and a task whose GET fails ends as failed.
C14_NoRetryStep ==
    /\ GetCount(net') = GetCount(net) + Cardinality(StartingTasks)
    /\ \A i \in DOMAIN task_pc :
          /\ task_pc[i] # "acquire" => task_pc'[i] # "acquire"
          /\ i \in Started(task_pc) => i \in Started(task_pc')
          /\ task_pc[i] = "done" => task_pc'[i] = "done" /\ results'[i] = results[i]
          /\ (task_pc[i] = "send" /\ task_pc'[i] \notin {"send", "bytes"}) =>
                task_pc'[i] = "done" /\ results'[i] = "err"

\* A task that was given a permit gets its GET sent.
C14_GrantedIsSent ==
    \A i \in 1..MaxPhotos :
        (i \in DOMAIN task_pc /\ task_pc[i] = "granted") ~> (i \in Started(task_pc))

C15_LastWriterWins ==
    \A i, j \in Tasks :
        (/\ i # j
         /\ download_infos[i].filename = download_infos[j].filename
         /\ results[i] = "ok" /\ ~last_write_err[i]
         /\ results[j] = "ok" /\ ~last_write_err[j]) =>
            files[download_infos[i].filename] \in {task_content[i], task_content[j]}

\* The token each argument holds after icloud.com/sharedalbum/#, if any.
TokenAfterICloudFragment(u) ==
    IF u \in {UrlWithToken, UrlTokenThenDash, UrlTwoFragments} THEN Some(<<"B", "2", "T">>)
    ELSE None

\* The token each argument holds after /sharedalbum/#, whatever precedes it.
TokenAfterAnyFragment(u) ==
    IF u \in {UrlOtherHost, UrlAnyCharForDot} THEN Some(<<"B", "2", "T">>)
    ELSE TokenAfterICloudFragment(u)

\* The resolver returns the expected token, and main() goes on with it; or it fails, and
\* main() has ended with InvalidInput before any request.
ResolvesAs(Expected(_)) ==
    /\ extract_hash_from_url(url) = Expected(url)
    /\ pc # "start" =>
          IF IsSome(Expected(url))
          THEN hash = Unwrap(Expected(url)) /\ exit.error # "InvalidInput"
          ELSE /\ pc = "done"
               /\ exit = ExitErr("InvalidInput", 0)
               /\ hash = <<>>
               /\ net = <<>>
               /\ files = <<>>

\* The claim as stated: any string with /sharedalbum/#<token> resolves.
C16_AsStated == ResolvesAs(TokenAfterAnyFragment)

\* C16: the resolver returns exactly the run of letters and digits that follows
\* icloud.com/sharedalbum/# (the first such fragment) for every string that holds one,
\* and fails with InvalidInput for every other string, an empty token included; after a
\* failure nothing more happens and no request is sent.
C16_TokenResolved ==
    /\ []ResolvesAs(TokenAfterICloudFragment)
    /\ [][exit.error = "InvalidInput" => UNCHANGED vars]_vars

\* The argument with characters after the token was resolved to the token and used.
C16_Witness ==
    /\ url = UrlTokenThenDash
    /\ hash = <<"B", "2", "T">>
    /\ pc = "webstream"
    /\ net = <<Event("webstream_request", <<"B", "2", "T">>)>>

\* The filename the rule gives for each path: the last segment without its query, or
\* {photoGuid}.jpg when that leaves nothing.
FilenameByRule(path, photo_guid) ==
    IF path = PathA THEN <<"I", ".", "J">>
    ELSE IF path = PathB THEN <<"K", ".", "J">>
    ELSE photo_guid \o <<".", "j", "p", "g">>

\* C17: the filename of a task is the last segment of its path up to the first ?, or
\* {photoGuid}.jpg when no name can be derived; it is never empty.
C17_FilenameNeverEmpty ==
    \A t \in 1..Len(fetch_download_infos) :
        /\ fetch_download_infos[t].filename # <<>>
        /\ fetch_download_infos[t].filename =
              FilenameByRule(asset_paths[fetch_download_infos[t].checksum],
                             fetch_download_infos[t].photo_guid)

\* The stages of a transfer in the order of download_single_photo.
TransferRank(p) ==
    IF p = "acquire" THEN 0
    ELSE IF p = "granted" THEN 1
    ELSE IF p = "send" THEN 2
    ELSE IF p = "bytes" THEN 3
    ELSE IF p = "create" THEN 4
    ELSE IF p = "write" THEN 5
    ELSE IF p = "inflight" THEN 6
    ELSE IF p = "written" THEN 7
    ELSE IF p = "sync" THEN 8
    ELSE 9

\* A transfer holds the full body from the moment it is about to create its file, and
\* nothing before; a file exists only for a task that received its body; a transfer that
\* succeeded has written every byte of its body.
C18_BodyBeforeFile ==
    /\ \A i \in DOMAIN task_pc :
          /\ task_pc[i] \in {"create", "write", "inflight", "written", "sync"} =>
                task_content[i] = ServerBody(download_infos[i].download_url)
          /\ task_pc[i] \in {"acquire", "granted", "send", "bytes"} => task_content[i] = <<>>
          /\ results[i] = "ok" =>
                /\ task_content[i] = ServerBody(download_infos[i].download_url)
                /\ download_infos[i].filename \in DOMAIN files
                /\ task_pos[i] = BodyLen(task_content[i])
    /\ \A f \in DOMAIN files :
          \E i \in DOMAIN task_pc :
             /\ download_infos[i].filename = f
             /\ task_content[i] = ServerBody(download_infos[i].download_url)
             /\ TransferRank(task_pc[i]) >= TransferRank("write")

\* A transfer moves one stage at a time, back to the write for the next piece of its
\* body, or ends as failed; it succeeds only from the sync and only when no write of it
\* failed; the files change only when a transfer creates its file or writes to it; a
\* transfer that fails at the GET or while reading the body changes no file.
C18_TransferStep ==
    /\ \A i \in DOMAIN task_pc :
          /\ task_pc'[i] # task_pc[i] =>
                \/ TransferRank(task_pc'[i]) = TransferRank(task_pc[i]) + 1
                \/ task_pc[i] = "written" /\ task_pc'[i] \in {"write", "sync"}
                \/ task_pc'[i] = "done" /\ results'[i] = "err"
          /\ (results[i] # "ok" /\ results'[i] = "ok") =>
                task_pc[i] = "sync" /\ ~last_write_err[i]
          /\ (task_pc[i] \in {"send", "bytes"} /\ task_pc'[i] = "done") => files' = files
    /\ files' # files =>
          \E i \in DOMAIN task_pc :
             \/ /\ task_pc[i] = "create" /\ task_pc'[i] = "write"
                /\ DOMAIN files' = DOMAIN files \cup {download_infos[i].filename}
                /\ files'[download_infos[i].filename] = <<>>
             \/ /\ task_pc[i] = "inflight" /\ task_pc'[i] = "written"
                /\ DOMAIN files' = DOMAIN files
                /\ \A f \in DOMAIN files \ {download_infos[i].filename} :
                      files'[f] = files[f]

\* C18: a task succeeds only after the success status, the full body, the write to its
\* file and the sync, in that order; its file is created or truncated only once status
\* and body are in, so a task that fails before that leaves the directory unchanged.
C18_WriteAfterBody ==
    /\ []C18_BodyBeforeFile
    /\ [][C18_TransferStep]_vars

\* download_photos has created its semaphore.
SemaphoreExists == pc = "download" \/ reported

\* The claim as stated: the free permits and the tasks that hold a permit add up to the
\* limit.
C19_AsStated ==
    SemaphoreExists => permits + Cardinality(Holding(task_pc)) = max_concurrent

\* The free permits, the permits held and the permits given to a queued task that has not
\* resumed add up to the limit; a queued task means no free permit; with every task
\* ended all permits are free.
C19_PermitsAddUp ==
    SemaphoreExists =>
        /\ permits >= 0
        /\ permits + Cardinality(Holding(task_pc)) + Cardinality(Granted(task_pc))
              = max_concurrent
        /\ Waiting(task_pc) # {} => permits = 0
        /\ (\A i \in Tasks : task_pc[i] = "done") => permits = max_concurrent

\* A task that finishes, with either result, frees its permit or has it given to the
\* first queued task; a task that resumes holds the permit it was given.
C19_ReleaseStep ==
    \A i \in DOMAIN task_pc :
        /\ (task_pc[i] # "done" /\ task_pc'[i] = "done") =>
              /\ results'[i] \in {"ok", "err"}
              /\ i \in Holding(task_pc)
              /\ Holding(task_pc') = Holding(task_pc) \ {i}
              /\ \/ /\ permits' = permits + 1
                    /\ Granted(task_pc') = Granted(task_pc)
                 \/ /\ permits' = permits
                    /\ \E w \in Waiting(task_pc) :
                          /\ \A m \in Waiting(task_pc) : w <= m
                          /\ Granted(task_pc') = Granted(task_pc) \cup {w}
        /\ (task_pc[i] = "granted" /\ task_pc'[i] # "granted") =>
              /\ permits' = permits
              /\ Holding(task_pc') = Holding(task_pc) \cup {i}

\* C19: in download_photos the free permits, the permits held by tasks and the permits
\* given to queued tasks that have not resumed add up to max_concurrent; a task gives
\* its permit back when it ends, succeeded or failed; once all tasks have ended all
\* permits are free.
C19_PermitsConserved ==
    /\ []C19_PermitsAddUp
    /\ [][C19_ReleaseStep]_vars

\* Under the limit 2 the first of three tasks has failed and its permit was given to the
\* third, which has not resumed, while the second still holds its own: no permit is free.
C19_Witness ==
    /\ pc = "download"
    /\ max_concurrent = 2
    /\ Len(download_infos) = 3
    /\ task_pc[1] = "done" /\ results[1] = "err"
    /\ 2 \in Holding(task_pc)
    /\ task_pc[3] = "granted"
    /\ permits = 0

\* With the limit 0 and a task to run, download_photos is entered and stays as it began:
\* every task waits for a permit, no GET is sent, no file exists, nothing is reported.
C20_StuckAtZero ==
    (max_concurrent = 0 /\ download_infos # <<>>) =>
        /\ pc = "download"
        /\ exit = Running
        /\ permits = 0
        /\ \A i \in Tasks : task_pc[i] = "acquire" /\ results[i] = "pending"
        /\ GetCount(net) = 0
        /\ files = <<>>
        /\ ~reported
        /\ success_count = 0 /\ failure_count = 0

\* With the limit 0 and no task, a run that has ended after the resolution succeeded.
C20_EmptyAtZero ==
    (max_concurrent = 0 /\ reported) =>
        /\ download_infos = <<>>
        /\ exit = ExitOk
        /\ success_count = 0 /\ failure_count = 0
        /\ GetCount(net) = 0

\* C20: the limit 0 is accepted up to the scheduler; with at least one task no task is
\* ever admitted, no GET is sent and download_photos never returns or reports; with no
\* task it returns success at once.
C20_ZeroLimitNeverReturns ==
    /\ []C20_StuckAtZero
    /\ [][(max_concurrent = 0 /\ download_infos # <<>>) => UNCHANGED vars]_vars
    /\ []C20_EmptyAtZero
    /\ (max_concurrent = 0 /\ pc = "download" /\ download_infos = <<>>)
          ~> (reported /\ exit = ExitOk)

\* The limit 0 reached the scheduler with two tasks, which wait for a permit.
C20_Witness ==
    /\ max_concurrent = 0
    /\ pc = "download"
    /\ Len(download_infos) = 2
    /\ \A i \in Tasks : task_pc[i] = "acquire"
    /\ ~ENABLED DownloadStep

====
